---------------------------- MODULE Spec2Model ----------------------------
(***************************************************************************)
(* Reminder scheduling and adherence tracking of pillio-backend:           *)
(* app/services/reminder_service.py (ReminderService) over the reminders   *)
(* and reminder_logs tables, with the wall clock as part of the state.     *)
(*                                                                         *)
(* Dates are day numbers 0..MaxDay (day 0 is a Monday), times of day are   *)
(* ticks 0..MaxTime, and a datetime is day * TicksPerDay + time.           *)
(***************************************************************************)
EXTENDS Integers, Sequences, FiniteSets, TLC

VARIABLES
    reminders,   \* table reminders: id -> row
    nextId,      \* autoincrement of reminders.id
    logs,        \* table reminder_logs, in insertion order
    nextLogId,   \* autoincrement of reminder_logs.id
    clock,       \* datetime.now()
    last,        \* the last request and its response
    inflight,    \* the mark requests between their read and their commit
    notifications \* table notifications, in insertion order

vars == <<reminders, nextId, logs, nextLogId, clock, last, inflight, notifications>>

-----------------------------------------------------------------------------
(* Bounds *)

MaxDay == 1
MaxTime == 2
MaxReminders == 2
MaxLogs == 2
MaxTodayReminders == 1
MaxStatRows == 3

-----------------------------------------------------------------------------
(* Values *)

None == -1

Users == {1, 2}

\* Medicine rows (id -> user_id); medicine CRUD is outside the engine.
MedicineOwner == (1 :> 1) @@ (2 :> 2) @@ (4 :> 1)

Days == 0..MaxDay
Times == 0..MaxTime

TAKEN == "taken"
SKIPPED == "skipped"
MISSED == "missed"

DAILY == "daily"
SPECIFIC_DAYS == "specific_days"
INTERVAL == "interval"

\* specific_days is a nullable integer array; NoDays stands for NULL.
NoDays == {None}

-----------------------------------------------------------------------------
(* datetime *)

TicksPerDay == MaxTime + 1
TimeMin == 0
TimeMax == MaxTime

combine(d, t) == d * TicksPerDay + t

\* date.today() and datetime.now() read the same clock.
today == clock \div TicksPerDay

\* date.weekday(): Monday is 0, Sunday is 6.
weekday(d) == d % 7

DateOf(dt) == dt \div TicksPerDay


-----------------------------------------------------------------------------
(* Request payloads *)

ReminderIds == 1..MaxReminders

\* No request in flight; `stamp` is the time of the next transaction start as a
\* serial number.
NoInflight == [ stamp |-> 1, reqs |-> <<>> ]

NoRequest == [op |-> "none", user |-> 0, rid |-> 0, res |-> "none", count |-> 0]

Response(op, uid, rid, res, count) ==
    [op |-> op, user |-> uid, rid |-> rid, res |-> res, count |-> count]

-----------------------------------------------------------------------------
(* Queries *)

\* Mutant: the lookup forgets the owner.
get_reminder_by_id_any_user(rid, uid) ==
    IF rid \in DOMAIN reminders THEN rid ELSE None

\* select(Reminder).where(id == reminder_id, user_id == user_id).scalar_one_or_none()
get_reminder_by_id(rid, uid) ==
    IF rid \in DOMAIN reminders /\ reminders[rid].user_id = uid THEN rid ELSE None

\* Mutant: the window ends the day before end_date.
ActiveInWindow_end_exclusive(uid) ==
    { rid \in DOMAIN reminders :
        /\ reminders[rid].user_id = uid
        /\ reminders[rid].is_active = TRUE
        /\ reminders[rid].start_date <= today
        /\ (reminders[rid].end_date = None \/ reminders[rid].end_date > today) }

\* The SQL filter shared by get_today_reminders and the sweep.
ActiveInWindow(uid) ==
    { rid \in DOMAIN reminders :
        /\ reminders[rid].user_id = uid
        /\ reminders[rid].is_active = TRUE
        /\ reminders[rid].start_date <= today
        /\ (reminders[rid].end_date = None \/ reminders[rid].end_date >= today) }

\* Mutant: any non-empty weekday list is due.
DueOnWeekday_any_day(sd, wd) == sd # NoDays /\ sd # {}

\* `reminder.specific_days and today_weekday in reminder.specific_days`
DueOnWeekday(sd, wd) == sd # NoDays /\ sd # {} /\ wd \in sd

\* The ids of the reminders get_today_reminders returns (ordering left out).
get_today_reminders(uid) ==
    { rid \in ActiveInWindow(uid) :
        \/ reminders[rid].frequency = DAILY
        \/ /\ reminders[rid].frequency = SPECIFIC_DAYS
           /\ DueOnWeekday(reminders[rid].specific_days, weekday(today))
        \/ reminders[rid].frequency = INTERVAL }

\* Rows of reminder_logs of a reminder with scheduled_time in [lo, hi].
LogsBetween(rid, lo, hi) ==
    { i \in DOMAIN logs :
        /\ logs[i].reminder_id = rid
        /\ logs[i].scheduled_time >= lo
        /\ logs[i].scheduled_time <= hi }

\* Mutant: ascending instead of descending order.
EarliestCreated(S) ==
    CHOOSE i \in S : \A j \in S : logs[i].created_at <= logs[j].created_at

\* order_by(created_at.desc()).limit(1) over a non-empty set of rows.
LatestCreated(S) ==
    CHOOSE i \in S : \A j \in S : logs[j].created_at <= logs[i].created_at

\* The row get_reminder_status returns, None when it returns no row.
get_reminder_status_log(rid, for_date) ==
    LET S == LogsBetween(rid, combine(for_date, TimeMin), combine(for_date, TimeMax))
    IN  IF S # {} THEN LatestCreated(S) ELSE None

\* Mutant: overdue from the scheduled instant on.
get_reminder_status_at_or_after(rid, for_date) ==
    LET i == get_reminder_status_log(rid, for_date)
    IN  IF i # None THEN logs[i].status
        ELSE IF rid \notin DOMAIN reminders THEN MISSED
        ELSE IF clock >= combine(for_date, reminders[rid].reminder_time) THEN MISSED
        ELSE SKIPPED

\* The status get_reminder_status returns.
get_reminder_status(rid, for_date) ==
    LET i == get_reminder_status_log(rid, for_date)
    IN  IF i # None THEN logs[i].status
        ELSE IF rid \notin DOMAIN reminders THEN MISSED
        ELSE IF clock > combine(for_date, reminders[rid].reminder_time) THEN MISSED
        ELSE SKIPPED

\* round(x, 2) of the quotient num / den * 100, in hundredths of a percent:
\* to the nearest hundredth, a quotient halfway between two to the even one.
RoundedRate(num, den) ==
    LET q  == (10000 * num) \div den
        r2 == 2 * ((10000 * num) % den)
    IN  IF r2 > den \/ (r2 = den /\ q % 2 = 1) THEN q + 1 ELSE q

\* The rows get_adherence_stats selects: reminder_logs joined with reminders of
\* the user, scheduled in [combine(start, time.min), combine(end, time.max)].
LogsInRange(uid, start, end) ==
    { i \in DOMAIN logs :
        /\ logs[i].reminder_id \in DOMAIN reminders
        /\ reminders[logs[i].reminder_id].user_id = uid
        /\ logs[i].scheduled_time >= combine(start, TimeMin)
        /\ logs[i].scheduled_time <= combine(end, TimeMax) }

CountStatus(S, status) == Cardinality({ i \in S : logs[i].status = status })

\* Mutant: the join forgets the user.
get_adherence_stats_all_users(uid, start, end) ==
    LET S == { i \in DOMAIN logs :
                 /\ logs[i].scheduled_time >= combine(start, TimeMin)
                 /\ logs[i].scheduled_time <= combine(end, TimeMax) }
        taken == CountStatus(S, TAKEN)
        total == Cardinality(S)
    IN  [ total_scheduled |-> total,
          taken           |-> taken,
          skipped         |-> CountStatus(S, SKIPPED),
          missed          |-> CountStatus(S, MISSED),
          adherence_rate  |-> IF total > 0 THEN RoundedRate(taken, total) ELSE 0 ]

\* get_adherence_stats; adherence_rate in hundredths of a percent.
get_adherence_stats(uid, start, end) ==
    LET S     == LogsInRange(uid, start, end)
        taken == CountStatus(S, TAKEN)
        total == Cardinality(S)
    IN  [ total_scheduled |-> total,
          taken           |-> taken,
          skipped         |-> CountStatus(S, SKIPPED),
          missed          |-> CountStatus(S, MISSED),
          adherence_rate  |-> IF total > 0 THEN RoundedRate(taken, total) ELSE 0 ]

-----------------------------------------------------------------------------
(* Rows *)

\* Reminder(...) of create_reminder (dosage, notes and prescription_id carry no
\* behaviour and are left out).
NewReminder(uid, p) ==
    [ user_id       |-> uid,
      medicine_id   |-> p.medicine_id,
      reminder_time |-> p.reminder_time,
      frequency     |-> p.frequency,
      specific_days |-> p.specific_days,
      start_date    |-> p.start_date,
      end_date      |-> p.end_date,
      is_active     |-> p.is_active ]

\* ReminderLog(...). created_at is the database's now() of the inserting
\* transaction: a logical timestamp that is shared by the rows of one
\* transaction and grows from one transaction to the next.
NewLog(id, rid, scheduled, taken, status, created) ==
    [ id             |-> id,
      reminder_id    |-> rid,
      scheduled_time |-> scheduled,
      taken_time     |-> taken,
      status         |-> status,
      created_at     |-> created ]

\* `for field, value in update_data.items(): setattr(reminder, field, value)`
ApplyUpdate(row, upd) ==
    [ f \in DOMAIN row |-> IF f \in DOMAIN upd THEN upd[f] ELSE row[f] ]

-----------------------------------------------------------------------------
(* Operations *)

Init ==
    /\ reminders = <<>>
    /\ nextId = 1
    /\ logs = <<>>
    /\ nextLogId = 1
    /\ clock = 0
    /\ last = NoRequest
    /\ inflight = NoInflight
    /\ notifications = <<>>

\* Time passes.
Tick ==
    /\ clock < combine(MaxDay, TimeMax)
    /\ clock' = clock + 1
    /\ last' = Response("tick", 0, 0, "ok", 0)
    /\ UNCHANGED <<notifications, inflight, reminders, nextId, logs, nextLogId>>

\* Mutant: the medicine only has to exist.
create_reminder_any_owner(uid, p) ==
    IF p.medicine_id \in DOMAIN MedicineOwner
    THEN /\ nextId <= MaxReminders
         /\ reminders' = (nextId :> NewReminder(uid, p)) @@ reminders
         /\ nextId' = nextId + 1
         /\ last' = Response("create", uid, nextId, "ok", 0)
         /\ UNCHANGED <<notifications, inflight, logs, nextLogId, clock>>
    ELSE /\ last' = Response("create", uid, 0, "bad_request", 0)
         /\ UNCHANGED <<notifications, inflight, reminders, nextId, logs, nextLogId, clock>>

create_reminder(uid, p) ==
    IF p.medicine_id \in DOMAIN MedicineOwner /\ MedicineOwner[p.medicine_id] = uid
    THEN /\ nextId <= MaxReminders
         /\ reminders' = (nextId :> NewReminder(uid, p)) @@ reminders
         /\ nextId' = nextId + 1
         /\ last' = Response("create", uid, nextId, "ok", 0)
         /\ UNCHANGED <<notifications, inflight, logs, nextLogId, clock>>
    ELSE /\ last' = Response("create", uid, 0, "bad_request", 0)
         /\ UNCHANGED <<notifications, inflight, reminders, nextId, logs, nextLogId, clock>>

\* Mutant: an update also moves the stored rows of today to the new time.
update_reminder_rewrites_rows(rid, uid, upd) ==
    IF get_reminder_by_id(rid, uid) = None
    THEN /\ last' = Response("update", uid, rid, "not_found", 0)
         /\ UNCHANGED <<notifications, inflight, reminders, nextId, logs, nextLogId, clock>>
    ELSE /\ reminders' = [reminders EXCEPT ![rid] = ApplyUpdate(@, upd)]
         /\ logs' = [ i \in DOMAIN logs |->
                        IF logs[i].reminder_id = rid /\ "reminder_time" \in DOMAIN upd
                        THEN [ logs[i] EXCEPT !.scheduled_time =
                                  combine(DateOf(@), upd.reminder_time) ]
                        ELSE logs[i] ]
         /\ last' = Response("update", uid, rid, "ok", 0)
         /\ UNCHANGED <<notifications, inflight, nextId, nextLogId, clock>>

update_reminder(rid, uid, upd) ==
    IF get_reminder_by_id(rid, uid) = None
    THEN /\ last' = Response("update", uid, rid, "not_found", 0)
         /\ UNCHANGED <<notifications, inflight, reminders, nextId, logs, nextLogId, clock>>
    ELSE /\ reminders' = [reminders EXCEPT ![rid] = ApplyUpdate(@, upd)]
         /\ last' = Response("update", uid, rid, "ok", 0)
         /\ UNCHANGED <<notifications, inflight, nextId, logs, nextLogId, clock>>

\* Mutant: the rows of the deleted reminder stay.
delete_reminder_keeps_rows(rid, uid) ==
    IF get_reminder_by_id(rid, uid) = None
    THEN /\ last' = Response("delete", uid, rid, "not_found", 0)
         /\ UNCHANGED <<notifications, inflight, reminders, nextId, logs, nextLogId, clock>>
    ELSE /\ reminders' = [r \in DOMAIN reminders \ {rid} |-> reminders[r]]
         /\ last' = Response("delete", uid, rid, "ok", 0)
         /\ UNCHANGED <<notifications, inflight, nextId, logs, nextLogId, clock>>

\* db.delete(reminder) cascades to reminder.reminder_logs.
delete_reminder(rid, uid) ==
    IF get_reminder_by_id(rid, uid) = None
    THEN /\ last' = Response("delete", uid, rid, "not_found", 0)
         /\ UNCHANGED <<notifications, inflight, reminders, nextId, logs, nextLogId, clock>>
    ELSE /\ reminders' = [r \in DOMAIN reminders \ {rid} |-> reminders[r]]
         /\ logs' = SelectSeq(logs, LAMBDA l : l.reminder_id # rid)
         /\ last' = Response("delete", uid, rid, "ok", 0)
         /\ UNCHANGED <<notifications, inflight, nextId, nextLogId, clock>>

\* Mutant: a second mark of the day answers ok without a new row.
mark_reminder_taken_once_a_day(rid, uid) ==
    IF get_reminder_by_id(rid, uid) = None
    THEN /\ last' = Response("mark_taken", uid, rid, "not_found", 0)
         /\ UNCHANGED <<notifications, inflight, reminders, nextId, logs, nextLogId, clock>>
    ELSE IF LogsBetween(rid, combine(today, TimeMin), combine(today, TimeMax)) # {}
    THEN /\ last' = Response("mark_taken", uid, rid, "ok", 0)
         /\ UNCHANGED <<notifications, inflight, reminders, nextId, logs, nextLogId, clock>>
    ELSE /\ nextLogId <= MaxLogs
         /\ logs' = Append(logs,
                NewLog(nextLogId, rid, combine(today, reminders[rid].reminder_time),
                       clock, TAKEN, nextLogId))
         /\ nextLogId' = nextLogId + 1
         /\ last' = Response("mark_taken", uid, rid, "ok", 0)
         /\ UNCHANGED <<notifications, inflight, reminders, nextId, clock>>

mark_reminder_taken(rid, uid) ==
    IF get_reminder_by_id(rid, uid) = None
    THEN /\ last' = Response("mark_taken", uid, rid, "not_found", 0)
         /\ UNCHANGED <<notifications, inflight, reminders, nextId, logs, nextLogId, clock>>
    ELSE /\ nextLogId <= MaxLogs
         /\ logs' = Append(logs,
                NewLog(nextLogId, rid, combine(today, reminders[rid].reminder_time),
                       clock, TAKEN, nextLogId))
         /\ nextLogId' = nextLogId + 1
         /\ last' = Response("mark_taken", uid, rid, "ok", 0)
         /\ UNCHANGED <<notifications, inflight, reminders, nextId, clock>>

\* Mutant: a skip records the time of the call as taken_time.
mark_reminder_skipped_with_taken_time(rid, uid) ==
    IF get_reminder_by_id(rid, uid) = None
    THEN /\ last' = Response("mark_skipped", uid, rid, "not_found", 0)
         /\ UNCHANGED <<notifications, inflight, reminders, nextId, logs, nextLogId, clock>>
    ELSE /\ nextLogId <= MaxLogs
         /\ logs' = Append(logs,
                NewLog(nextLogId, rid, combine(today, reminders[rid].reminder_time),
                       clock, SKIPPED, nextLogId))
         /\ nextLogId' = nextLogId + 1
         /\ last' = Response("mark_skipped", uid, rid, "ok", 0)
         /\ UNCHANGED <<notifications, inflight, reminders, nextId, clock>>

mark_reminder_skipped(rid, uid) ==
    IF get_reminder_by_id(rid, uid) = None
    THEN /\ last' = Response("mark_skipped", uid, rid, "not_found", 0)
         /\ UNCHANGED <<notifications, inflight, reminders, nextId, logs, nextLogId, clock>>
    ELSE /\ nextLogId <= MaxLogs
         /\ logs' = Append(logs,
                NewLog(nextLogId, rid, combine(today, reminders[rid].reminder_time),
                       None, SKIPPED, nextLogId))
         /\ nextLogId' = nextLogId + 1
         /\ last' = Response("mark_skipped", uid, rid, "ok", 0)
         /\ UNCHANGED <<notifications, inflight, reminders, nextId, clock>>

\* A set of ids as a list in increasing order.
RECURSIVE Ascending(_)
Ascending(S) ==
    IF S = {} THEN <<>>
    ELSE LET m == CHOOSE x \in S : \A y \in S : x <= y
         IN  <<m>> \o Ascending(S \ {m})

\* Mutant: the sweep selects the reminders of every user.
Overdue_any_user(uid) ==
    { rid \in DOMAIN reminders :
        /\ reminders[rid].is_active = TRUE
        /\ reminders[rid].start_date <= today
        /\ (reminders[rid].end_date = None \/ reminders[rid].end_date >= today)
        /\ clock > combine(today, reminders[rid].reminder_time) }

\* The reminders whose time has passed today, among those the sweep selects.
Overdue(uid) ==
    { rid \in ActiveInWindow(uid) :
        clock > combine(today, reminders[rid].reminder_time) }

\* Mutant: the sweep looks for rows scheduled in the future only.
ExistingLogs_after_now(rid) == LogsBetween(rid, clock + 1, combine(today, TimeMax))

\* `log_query`: the rows of the reminder scheduled between the start of today
\* and now.
ExistingLogs(rid) == LogsBetween(rid, combine(today, TimeMin), clock)

\* The reminders the sweep writes a missed row for.
ToMarkMissed(uid) == { rid \in Overdue(uid) : ExistingLogs(rid) = {} }

\* scalar_one_or_none() raises MultipleResultsFound on two or more rows; the
\* session is rolled back and the request answers 500.
mark_overdue_reminders_as_missed(uid) ==
    IF \E rid \in Overdue(uid) : Cardinality(ExistingLogs(rid)) > 1
    THEN /\ last' = Response("sweep", uid, 0, "error", 0)
         /\ UNCHANGED <<notifications, inflight, reminders, nextId, logs, nextLogId, clock>>
    ELSE LET order == Ascending(ToMarkMissed(uid))
             n     == Len(order)
         IN  /\ nextLogId + n - 1 <= MaxLogs
             /\ logs' = logs \o
                    [ k \in 1..n |->
                        NewLog(nextLogId + k - 1, order[k],
                               combine(today, reminders[order[k]].reminder_time),
                               None, MISSED, nextLogId) ]
             /\ nextLogId' = nextLogId + n
             /\ last' = Response("sweep", uid, 0, "ok", n)
             /\ UNCHANGED <<notifications, inflight, reminders, nextId, clock>>

\* GET /today: the reminders of the day.
get_today_request(uid) ==
    /\ last' = [ op |-> "today", user |-> uid, rid |-> 0, res |-> "ok", count |-> 0,
                 ids |-> get_today_reminders(uid) ]
    /\ UNCHANGED <<notifications, inflight, reminders, nextId, logs, nextLogId, clock>>

\* GET /adherence/stats.
get_adherence_stats_request(uid, start, end) ==
    /\ last' = [ op |-> "stats", user |-> uid, rid |-> 0, res |-> "ok", count |-> 0,
                 start |-> start, end |-> end,
                 stats |-> get_adherence_stats(uid, start, end) ]
    /\ UNCHANGED <<notifications, inflight, reminders, nextId, logs, nextLogId, clock>>

-----------------------------------------------------------------------------
(* Spec: the engine under requests of the owner (user 1) and of a second   *)
(* user who owns none of the reminders.                                    *)

\* ReminderCreate bodies: a daily reminder at the last tick of the day and a
\* Tuesday-only reminder at the first, for medicine 1 (of user 1) or for
\* medicine 3 (of nobody).
CreatePayloads ==
    { [ medicine_id   |-> m,
        reminder_time |-> tf[1],
        frequency     |-> tf[2],
        specific_days |-> tf[3],
        start_date    |-> 0,
        end_date      |-> None,
        is_active     |-> TRUE ] :
      m \in {1, 3},
      tf \in { <<MaxTime, DAILY, NoDays>>, <<0, SPECIFIC_DAYS, {1}>> } }

\* ReminderUpdate bodies (exclude_unset: only the fields given are assigned).
UpdatePayloads ==
    { [reminder_time |-> 0] }

Next ==
    \/ Tick
    \/ \E uid \in Users, p \in CreatePayloads : create_reminder(uid, p)
    \/ \E rid \in ReminderIds, uid \in Users, upd \in UpdatePayloads :
          update_reminder(rid, uid, upd)
    \/ \E rid \in ReminderIds, uid \in Users : delete_reminder(rid, uid)
    \/ \E rid \in ReminderIds, uid \in Users : mark_reminder_taken(rid, uid)
    \/ \E rid \in ReminderIds, uid \in Users : mark_reminder_skipped(rid, uid)
    \/ \E uid \in Users : mark_overdue_reminders_as_missed(uid)

Spec == Init /\ [][Next]_vars

-----------------------------------------------------------------------------
(* Properties of the engine *)

Marks == {"mark_taken", "mark_skipped"}

\* The rows of a reminder scheduled on a day, by position in the table
\* (insertion order).
EventsOn(rid, d) ==
    { i \in DOMAIN logs :
        logs[i].reminder_id = rid /\ DateOf(logs[i].scheduled_time) = d }

Newest(S) == CHOOSE i \in S : \A j \in S : j <= i

\* The reminders of the rows a step appended.
AppendedFor == { logs'[i].reminder_id : i \in (Len(logs) + 1)..Len(logs') }

\* C3: a successful mark_taken or mark_skipped appends exactly one row, for the
\* reminder asked for, scheduled at combine(today, its reminder_time), with status
\* taken resp. skipped, whatever rows exist already, and leaves the stored rows
\* and the reminders as they were.
C3_MarkAppendsOne ==
    [][ (last'.op \in Marks /\ last'.res = "ok") =>
          /\ Len(logs') = Len(logs) + 1
          /\ SubSeq(logs', 1, Len(logs)) = logs
          /\ logs'[Len(logs')].reminder_id = last'.rid
          /\ logs'[Len(logs')].scheduled_time =
                combine(today, reminders[last'.rid].reminder_time)
          /\ logs'[Len(logs')].status =
                (IF last'.op = "mark_taken" THEN TAKEN ELSE SKIPPED)
          /\ reminders' = reminders ]_vars

\* C3 witness: a mark succeeded on a reminder that already had a row for today.
C3_Witness ==
    /\ last.op \in Marks
    /\ last.res = "ok"
    /\ Cardinality(EventsOn(last.rid, today)) >= 2

\* C4: a mark of a reminder that does not exist or belongs to another user
\* answers not-found, and only such a mark does; it changes neither the rows nor
\* the reminders.
C4_MarkNotFound ==
    [][ (last'.op \in Marks) =>
          /\ (last'.res = "not_found") <=>
                (\/ last'.rid \notin DOMAIN reminders
                 \/ reminders[last'.rid].user_id # last'.user)
          /\ (last'.res = "not_found") =>
                (logs' = logs /\ reminders' = reminders) ]_vars

\* C4 witness: a user was refused a mark of another user's reminder while rows
\* were stored.
C4_Witness ==
    /\ last.op \in Marks
    /\ last.res = "not_found"
    /\ last.rid \in DOMAIN reminders
    /\ reminders[last.rid].user_id # last.user
    /\ logs # <<>>

\* C5: while the day lasts and the reminder exists, a reminder that resolves to
\* taken keeps resolving to taken over every step that is not a mark of it.
C5_TakenStays ==
    [][ \A rid \in DOMAIN reminders :
          ( /\ get_reminder_status(rid, today) = TAKEN
            /\ EventsOn(rid, today) # {}
            /\ today' = today
            /\ rid \in DOMAIN reminders'
            /\ ~(last'.op \in Marks /\ last'.rid = rid) )
          => get_reminder_status(rid, today)' = TAKEN ]_vars

\* C6: with rows stored for (reminder, day), the status is that of the row
\* inserted last among the rows of that reminder scheduled on that day.
C6_LatestEventWins ==
    \A rid \in ReminderIds, d \in Days :
        EventsOn(rid, d) # {} =>
            get_reminder_status(rid, d) = logs[Newest(EventsOn(rid, d))].status

\* C6 witness: a reminder with two rows of different status today, and a row of
\* another day or reminder inserted in between or after.
C6_Witness ==
    \E rid \in ReminderIds :
        /\ \E i, j \in EventsOn(rid, today) : logs[i].status # logs[j].status
        /\ get_reminder_status(rid, today) = SKIPPED

\* C7 as stated: without a row for (reminder, day) the status is missed exactly
\* when now >= combine(day, reminder_time).
C7_MissedFromScheduledInstant ==
    \A rid \in DOMAIN reminders, d \in Days :
        EventsOn(rid, d) = {} =>
            ( get_reminder_status(rid, d) = MISSED
                <=> clock >= combine(d, reminders[rid].reminder_time) )

\* C7 amended: without a row for (reminder, day) the status is missed exactly
\* when now > combine(day, reminder_time); at the scheduled instant itself it is
\* not missed.
C7_MissedAfterScheduledInstant ==
    \A rid \in DOMAIN reminders, d \in Days :
        EventsOn(rid, d) = {} =>
            ( get_reminder_status(rid, d) = MISSED
                <=> clock > combine(d, reminders[rid].reminder_time) )

\* C7 witness: a reminder without a row today at its scheduled instant, not
\* missed.
C7_Witness ==
    \E rid \in DOMAIN reminders :
        /\ EventsOn(rid, today) = {}
        /\ clock = combine(today, reminders[rid].reminder_time)
        /\ get_reminder_status(rid, today) # MISSED

\* C8: a sweep never writes a missed row for a reminder that has a missed row
\* today, and a sweep that directly follows a sweep of the same user writes
\* nothing and returns 0.
C8_SweepIdempotent ==
    [][ (last'.op = "sweep") =>
          /\ \A rid \in AppendedFor :
                \A i \in EventsOn(rid, today) : logs[i].status # MISSED
          /\ (last.op = "sweep" /\ last.res = "ok" /\ last.user = last'.user) =>
                (last'.res = "ok" /\ logs' = logs /\ last'.count = 0) ]_vars

\* C8 witness: a sweep returned 0 for a user who has a reminder with a missed row
\* today.
C8_Witness ==
    /\ last.op = "sweep"
    /\ last.res = "ok"
    /\ last.count = 0
    /\ \E rid \in DOMAIN reminders :
          /\ reminders[rid].user_id = last.user
          /\ \E i \in EventsOn(rid, today) : logs[i].status = MISSED

\* C9: a sweep writes missed rows for exactly the reminders get_today_reminders
\* returns whose time has passed and that have no row today.
C9_SweepOnlyDueToday ==
    [][ (last'.op = "sweep" /\ last'.res = "ok") =>
          AppendedFor =
            { rid \in get_today_reminders(last'.user) :
                /\ clock > combine(today, reminders[rid].reminder_time)
                /\ EventsOn(rid, today) = {} } ]_vars

-----------------------------------------------------------------------------
(* SpecToday: get_today_reminders over reminders of every recurrence, window *)
(* and active flag, as the days pass.                                       *)

TodayPayloads ==
    { [ medicine_id   |-> 1,
        reminder_time |-> 0,
        frequency     |-> fd[1],
        specific_days |-> fd[2],
        start_date    |-> s,
        end_date      |-> e,
        is_active     |-> a ] :
      fd \in { <<DAILY, NoDays>>, <<INTERVAL, NoDays>>, <<SPECIFIC_DAYS, NoDays>>,
               <<SPECIFIC_DAYS, {}>>, <<SPECIFIC_DAYS, {0}>> },
      s \in Days, e \in {None} \cup Days, a \in BOOLEAN }

NextToday ==
    \/ Tick
    \/ \E p \in TodayPayloads : nextId <= MaxTodayReminders /\ create_reminder(1, p)
    \/ \E uid \in Users : get_today_request(uid)

SpecToday == Init /\ [][NextToday]_vars

InWindow(r, d) == r.start_date <= d /\ (r.end_date = None \/ d <= r.end_date)

\* C1: get_today_reminders returns only active reminders of the user, and an
\* active daily or interval reminder of the user exactly when
\* start_date <= today and (end_date is absent or today <= end_date).
C1_DailyIntervalDue ==
    last.op = "today" =>
        /\ \A rid \in last.ids :
              reminders[rid].user_id = last.user /\ reminders[rid].is_active
        /\ \A rid \in DOMAIN reminders :
              ( /\ reminders[rid].user_id = last.user
                /\ reminders[rid].is_active
                /\ reminders[rid].frequency \in {DAILY, INTERVAL} )
              => (rid \in last.ids <=> InWindow(reminders[rid], today))

\* C1 witness: an active interval reminder is returned on its end_date.
C1_Witness ==
    /\ last.op = "today"
    /\ \E rid \in last.ids :
          /\ reminders[rid].frequency = INTERVAL
          /\ reminders[rid].end_date = today
          /\ today > 0

\* C2: an active specific-weekdays reminder of the user is returned exactly when
\* today is inside its window and today's weekday is in specific_days; with an
\* empty or absent list it is never returned.
C2_SpecificDaysDue ==
    last.op = "today" =>
        \A rid \in DOMAIN reminders :
            ( /\ reminders[rid].user_id = last.user
              /\ reminders[rid].is_active
              /\ reminders[rid].frequency = SPECIFIC_DAYS )
            => ( rid \in last.ids <=>
                   /\ InWindow(reminders[rid], today)
                   /\ reminders[rid].specific_days # NoDays
                   /\ weekday(today) \in reminders[rid].specific_days )

\* C2 witness: an active Monday-only reminder inside its window is not returned
\* on a Tuesday.
C2_Witness ==
    /\ last.op = "today"
    /\ weekday(today) = 1
    /\ \E rid \in DOMAIN reminders \ last.ids :
          /\ reminders[rid].user_id = last.user
          /\ reminders[rid].is_active
          /\ reminders[rid].frequency = SPECIFIC_DAYS
          /\ reminders[rid].specific_days = {0}
          /\ InWindow(reminders[rid], today)

-----------------------------------------------------------------------------
(* SpecStats: get_adherence_stats over the tables two users can have built  *)
(* by the end of the last day.                                              *)

\* Two daily reminders at the first tick of the day, one per user.
StatsReminders ==
    LET p(m) == [ medicine_id |-> m, reminder_time |-> 0, frequency |-> DAILY,
                  specific_days |-> NoDays, start_date |-> 0, end_date |-> None,
                  is_active |-> TRUE ]
    IN  (1 :> NewReminder(1, p(1))) @@ (2 :> NewReminder(2, p(2)))

\* A table as the list of (reminder, day, status) of its rows. Rows are inserted
\* as the days pass, and the sweep writes a missed row only for a reminder
\* without a row that day.
StatsTables ==
    { T \in UNION { [1..n -> {1, 2} \X Days \X {TAKEN, SKIPPED, MISSED}] :
                      n \in 0..MaxStatRows } :
        \A i \in DOMAIN T :
            /\ \A j \in DOMAIN T : j < i => T[j][2] <= T[i][2]
            /\ T[i][3] = MISSED =>
                  \A j \in DOMAIN T :
                      j < i => ~(T[j][1] = T[i][1] /\ T[j][2] = T[i][2]) }

InitStats ==
    /\ reminders = StatsReminders
    /\ nextId = 3
    /\ \E T \in StatsTables :
          /\ logs = [ i \in DOMAIN T |->
                        NewLog(i, T[i][1], combine(T[i][2], 0),
                               IF T[i][3] = TAKEN THEN combine(T[i][2], 0) ELSE None,
                               T[i][3], i) ]
          /\ nextLogId = Len(T) + 1
    /\ clock = combine(MaxDay, TimeMax)
    /\ last = NoRequest
    /\ inflight = NoInflight
    /\ notifications = <<>>

NextStats ==
    \E uid \in Users, start \in Days, end \in Days :
        get_adherence_stats_request(uid, start, end)

SpecStats == InitStats /\ [][NextStats]_vars

\* The rows of the user's reminders scheduled on the days start..end.
UserEvents(uid, start, end, status) ==
    { i \in DOMAIN logs :
        /\ reminders[logs[i].reminder_id].user_id = uid
        /\ DateOf(logs[i].scheduled_time) \in start..end
        /\ logs[i].status = status }

CountsRight ==
    /\ last.stats.taken =
          Cardinality(UserEvents(last.user, last.start, last.end, TAKEN))
    /\ last.stats.skipped =
          Cardinality(UserEvents(last.user, last.start, last.end, SKIPPED))
    /\ last.stats.missed =
          Cardinality(UserEvents(last.user, last.start, last.end, MISSED))
    /\ last.stats.total_scheduled =
          last.stats.taken + last.stats.skipped + last.stats.missed

\* C10 as stated: the counts are those of the user's rows in the window and
\* adherence_rate is taken / total_scheduled * 100 (here in hundredths), 0 without
\* rows.
C10_ExactRate ==
    last.op = "stats" =>
        /\ CountsRight
        /\ IF last.stats.total_scheduled = 0
           THEN last.stats.adherence_rate = 0
           ELSE last.stats.adherence_rate * last.stats.total_scheduled
                   = 10000 * last.stats.taken

\* C10 amended: the counts are those of the user's rows in the window and
\* adherence_rate is taken / total_scheduled * 100 rounded to two decimals (the
\* nearest hundredth), 0 without rows.
C10_RoundedRate ==
    last.op = "stats" =>
        /\ CountsRight
        /\ IF last.stats.total_scheduled = 0
           THEN last.stats.adherence_rate = 0
           ELSE LET d == last.stats.adherence_rate * last.stats.total_scheduled
                           - 10000 * last.stats.taken
                IN  2 * d <= last.stats.total_scheduled
                    /\ -(2 * d) <= last.stats.total_scheduled

\* C10 witness: one of three rows of the user in the window is taken, another
\* user has rows in it too, and the rate is 33.33.
C10_Witness ==
    /\ last.op = "stats"
    /\ last.stats.total_scheduled = 3
    /\ last.stats.taken = 1
    /\ last.stats.adherence_rate = 3333

-----------------------------------------------------------------------------
(* Tables for the aggregation reads *)

\* The tables of at most n rows, each row a (reminder, day, status): rows are
\* inserted as the days pass, and the sweep writes a missed row only for a
\* reminder without a row that day.
RECURSIVE TablesUpTo(_, _, _)
TablesUpTo(rids, days, n) ==
    IF n = 0 THEN { <<>> }
    ELSE LET shorter == TablesUpTo(rids, days, n - 1)
         IN  shorter \cup
             { Append(T, <<rid, d, st>>) :
                 T \in { U \in shorter : Len(U) = n - 1 },
                 rid \in rids, d \in days, st \in {TAKEN, SKIPPED, MISSED} }

TableReachable(T) ==
    \A i \in DOMAIN T :
        /\ \A j \in DOMAIN T : j < i => T[j][2] <= T[i][2]
        /\ T[i][3] = MISSED =>
              \A j \in DOMAIN T : j < i => ~(T[j][1] = T[i][1] /\ T[j][2] = T[i][2])

\* The reminder_logs rows of a table, for reminders at the first tick of the day.
TableLogs(T) ==
    [ i \in DOMAIN T |->
        NewLog(i, T[i][1], combine(T[i][2], 0),
               IF T[i][3] = TAKEN THEN combine(T[i][2], 0) ELSE None,
               T[i][3], i) ]

-----------------------------------------------------------------------------
(* get_adherence_streak *)

\* Mutant: longest_streak is never raised.
Max_keeps_first(a, b) == a

\* `if current_streak > longest_streak: longest_streak = current_streak`
Max(a, b) == IF a >= b THEN a ELSE b

\* Mutant: a day with one taken row is perfect.
PerfectCount_any_taken(taken, total) == taken > 0

\* `if taken == total and total > 0`: all scheduled reminders were taken.
PerfectCount(taken, total) == taken = total /\ total > 0

\* The loop of get_adherence_streak from iteration i on (check_date = today - i).
RECURSIVE StreakScan(_, _, _, _, _)
StreakScan(uid, i, current_streak, longest_streak, last_perfect_date) ==
    IF i < 0
    THEN [ current_streak  |-> current_streak,
           longest_streak  |-> longest_streak,
           last_taken_date |-> last_perfect_date ]
    ELSE LET check_date == today - i
             S          == LogsInRange(uid, check_date, check_date)
             taken      == CountStatus(S, TAKEN)
             total      == Cardinality(S)
         IN  IF S = {}
             THEN StreakScan(uid, i - 1, current_streak, longest_streak,
                             last_perfect_date)
             ELSE IF PerfectCount(taken, total)
             THEN StreakScan(uid, i - 1, current_streak + 1,
                             Max(longest_streak, current_streak + 1), check_date)
             ELSE IF i = 0 \/ check_date = today
             THEN StreakScan(uid, i - 1, current_streak, longest_streak,
                             last_perfect_date)
             ELSE StreakScan(uid, i - 1, 0, longest_streak, last_perfect_date)

\* range(365, -1, -1)
StreakWindow == 365

\* get_adherence_streak. No row is scheduled before day 0, so the iterations
\* before it only `continue` and the scan starts there.
get_adherence_streak(uid) ==
    StreakScan(uid, IF today < StreakWindow THEN today ELSE StreakWindow, 0, 0, None)

\* GET /adherence/streak.
get_adherence_streak_request(uid) ==
    /\ last' = [ op |-> "streak", user |-> uid, rid |-> 0, res |-> "ok", count |-> 0,
                 streak |-> get_adherence_streak(uid) ]
    /\ UNCHANGED <<notifications, inflight, reminders, nextId, logs, nextLogId, clock>>

-----------------------------------------------------------------------------
(* SpecStreak: get_adherence_streak over the tables two users can have built *)
(* by the end of day MaxStreakDay.                                           *)

MaxStreakDay == 3
MaxStreakRows == 4

StreakDays == 0..MaxStreakDay

InitStreak ==
    /\ reminders = StatsReminders
    /\ nextId = 3
    /\ \E T \in TablesUpTo({1, 2}, StreakDays, MaxStreakRows) :
          /\ TableReachable(T)
          /\ logs = TableLogs(T)
          /\ nextLogId = Len(T) + 1
    /\ clock = combine(MaxStreakDay, TimeMax)
    /\ last = NoRequest
    /\ inflight = NoInflight
    /\ notifications = <<>>

NextStreak == \E uid \in Users : get_adherence_streak_request(uid)

SpecStreak == InitStreak /\ [][NextStreak]_vars

\* The days of the scan with rows of the user, all of them taken.
PerfectDay(uid, d) ==
    /\ \E i \in DOMAIN logs :
          reminders[logs[i].reminder_id].user_id = uid
          /\ DateOf(logs[i].scheduled_time) = d
    /\ \A i \in DOMAIN logs :
          ( reminders[logs[i].reminder_id].user_id = uid
            /\ DateOf(logs[i].scheduled_time) = d ) => logs[i].status = TAKEN

\* The past days with rows of the user, not all of them taken.
BreakingDay(uid, d) ==
    /\ d < today
    /\ \E i \in DOMAIN logs :
          /\ reminders[logs[i].reminder_id].user_id = uid
          /\ DateOf(logs[i].scheduled_time) = d
          /\ logs[i].status # TAKEN

\* The perfect days of d1..d2 when no day of d1..d2 breaks the streak, else 0.
RunLength(uid, d1, d2) ==
    IF \E d \in d1..d2 : BreakingDay(uid, d) THEN 0
    ELSE Cardinality({ d \in d1..d2 : PerfectDay(uid, d) })

\* C11: current_streak is the number of perfect days after the last past day
\* with rows not all taken (days without rows and an imperfect today neither
\* count nor reset), and longest_streak is the largest number of perfect days in
\* a stretch of days without such a past day.
C11_StreakIsReferenceScan ==
    last.op = "streak" =>
        /\ last.streak.current_streak =
              Cardinality({ d \in 0..today :
                  /\ PerfectDay(last.user, d)
                  /\ \A e \in d..today : ~BreakingDay(last.user, e) })
        /\ \A d1 \in 0..today : \A d2 \in d1..today :
              RunLength(last.user, d1, d2) <= last.streak.longest_streak
        /\ \E d1 \in 0..today : \E d2 \in d1..today :
              RunLength(last.user, d1, d2) = last.streak.longest_streak

\* C11 witness: a perfect day, then a day with one missed of two, then a perfect
\* day, and today with a row that is not taken: current 1, longest 1.
C11_Witness ==
    /\ last.op = "streak"
    /\ PerfectDay(last.user, 0)
    /\ BreakingDay(last.user, 1)
    /\ PerfectDay(last.user, 2)
    /\ ~PerfectDay(last.user, today)
    /\ \E i \in DOMAIN logs : DateOf(logs[i].scheduled_time) = today
    /\ last.streak.current_streak = 1
    /\ last.streak.longest_streak = 1

-----------------------------------------------------------------------------
(* get_daily_adherence *)

\* One iteration of the loop of get_daily_adherence: the entry of day_date, the
\* rate in hundredths of a percent.
DailyEntry(uid, day_date) ==
    LET S     == LogsInRange(uid, day_date, day_date)
        taken == CountStatus(S, TAKEN)
        total == Cardinality(S)
    IN  [ date           |-> day_date,
          scheduled      |-> total,
          taken          |-> taken,
          skipped        |-> CountStatus(S, SKIPPED),
          missed         |-> CountStatus(S, MISSED),
          adherence_rate |-> IF total > 0 THEN RoundedRate(taken, total)
                             ELSE IF total = 0 THEN 10000 ELSE 0 ]

\* Mutant: the loop runs from today backwards.
get_daily_adherence_newest_first(uid, days) ==
    [ k \in 1..days |-> DailyEntry(uid, today - (k - 1)) ]

\* get_daily_adherence: for i in range(days - 1, -1, -1), day_date = today - i.
get_daily_adherence(uid, days) ==
    [ k \in 1..days |-> DailyEntry(uid, today - (days - k)) ]

\* GET /adherence/daily.
get_daily_adherence_request(uid, days) ==
    /\ last' = [ op |-> "daily", user |-> uid, rid |-> 0, res |-> "ok", count |-> 0,
                 days |-> days, daily |-> get_daily_adherence(uid, days) ]
    /\ UNCHANGED <<notifications, inflight, reminders, nextId, logs, nextLogId, clock>>

-----------------------------------------------------------------------------
(* SpecDaily: get_daily_adherence over the tables of SpecStats, for series  *)
(* that reach back before the first row.                                    *)

MaxSeriesDays == 3

NextDaily ==
    \E uid \in Users, days \in 1..MaxSeriesDays : get_daily_adherence_request(uid, days)

SpecDaily == InitStats /\ [][NextDaily]_vars

\* An entry of the series has the date of its place and the counts of the
\* user's rows of that date.
DailyCountsRight(k) ==
    LET e == last.daily[k]
        d == today - (last.days - 1) + (k - 1)
    IN  /\ e.date = d
        /\ e.taken = Cardinality(UserEvents(last.user, d, d, TAKEN))
        /\ e.skipped = Cardinality(UserEvents(last.user, d, d, SKIPPED))
        /\ e.missed = Cardinality(UserEvents(last.user, d, d, MISSED))
        /\ e.scheduled = e.taken + e.skipped + e.missed

\* C12 as stated: N entries, one per day from today-(N-1) to today in increasing
\* order, each with the counts of its day and adherence_rate =
\* taken / scheduled * 100 (here in hundredths), 100 for a day without rows.
C12_ExactDailyRate ==
    last.op = "daily" =>
        /\ Len(last.daily) = last.days
        /\ \A k \in 1..Len(last.daily) :
              /\ DailyCountsRight(k)
              /\ IF last.daily[k].scheduled = 0
                 THEN last.daily[k].adherence_rate = 10000
                 ELSE last.daily[k].adherence_rate * last.daily[k].scheduled
                         = 10000 * last.daily[k].taken

\* C12 amended: N entries, one per day from today-(N-1) to today in increasing
\* order, each with the counts of its day and adherence_rate =
\* taken / scheduled * 100 rounded to two decimals (the nearest hundredth), 100
\* for a day without rows.
C12_RoundedDailyRate ==
    last.op = "daily" =>
        /\ Len(last.daily) = last.days
        /\ \A k \in 1..Len(last.daily) :
              /\ DailyCountsRight(k)
              /\ IF last.daily[k].scheduled = 0
                 THEN last.daily[k].adherence_rate = 10000
                 ELSE LET d == last.daily[k].adherence_rate * last.daily[k].scheduled
                                 - 10000 * last.daily[k].taken
                      IN  2 * d <= last.daily[k].scheduled
                          /\ -(2 * d) <= last.daily[k].scheduled

\* C12 witness: a series of three days that starts before the first row, with a
\* day without rows at 100 and a day with one taken of three at 33.33.
C12_Witness ==
    /\ last.op = "daily"
    /\ last.days = 3
    /\ last.daily[1].date < 0
    /\ \E k \in 1..3 :
          last.daily[k].scheduled = 0 /\ last.daily[k].adherence_rate = 10000
    /\ \E k \in 1..3 :
          /\ last.daily[k].scheduled = 3
          /\ last.daily[k].taken = 1
          /\ last.daily[k].adherence_rate = 3333

-----------------------------------------------------------------------------
(* get_medicine_adherence *)

\* log.reminder.medicine_id
MedicineOf(i) == reminders[logs[i].reminder_id].medicine_id

\* The entry of medicine_stats for a medicine, from the selected rows S.
MedicineStats(S, m) ==
    LET own   == { i \in S : MedicineOf(i) = m }
        taken == CountStatus(own, TAKEN)
        total == Cardinality(own)
    IN  [ medicine_id     |-> m,
          total_scheduled |-> total,
          taken           |-> taken,
          skipped         |-> CountStatus(own, SKIPPED),
          missed          |-> CountStatus(own, MISSED),
          adherence_rate  |-> IF total > 0 THEN RoundedRate(taken, total) ELSE 0 ]

\* The keys of medicine_stats in insertion order: medicines by the first of
\* their rows.
RECURSIVE FirstSeen(_)
FirstSeen(S) ==
    IF S = {} THEN <<>>
    ELSE LET i == CHOOSE j \in S : \A k \in S : j <= k
         IN  <<MedicineOf(i)>> \o FirstSeen({ j \in S : MedicineOf(j) # MedicineOf(i) })

\* Mutant: the list is left in insertion order.
SortedByRate_unsorted(seq) == seq

\* medicines.sort(key=adherence_rate, reverse=True): stable, entries of equal
\* rate keep their order.
RECURSIVE SortedByRate(_)
SortedByRate(seq) ==
    IF seq = <<>> THEN <<>>
    ELSE LET sorted == SortedByRate(SubSeq(seq, 1, Len(seq) - 1))
             x      == seq[Len(seq)]
             k      == Cardinality({ j \in DOMAIN sorted :
                                       sorted[j].adherence_rate >= x.adherence_rate })
         IN  SubSeq(sorted, 1, k) \o <<x>> \o SubSeq(sorted, k + 1, Len(sorted))

\* get_medicine_adherence; rates in hundredths of a percent.
get_medicine_adherence(uid, start, end) ==
    LET S     == LogsInRange(uid, start, end)
        keys  == FirstSeen(S)
        taken == CountStatus(S, TAKEN)
        total == Cardinality(S)
    IN  [ medicines         |-> SortedByRate([ k \in DOMAIN keys |->
                                                 MedicineStats(S, keys[k]) ]),
          overall_adherence |-> IF total > 0 THEN RoundedRate(taken, total) ELSE 0 ]

\* GET /adherence/by-medicine.
get_medicine_adherence_request(uid, start, end) ==
    /\ last' = [ op |-> "by_medicine", user |-> uid, rid |-> 0, res |-> "ok",
                 count |-> 0, start |-> start, end |-> end,
                 report |-> get_medicine_adherence(uid, start, end) ]
    /\ UNCHANGED <<notifications, inflight, reminders, nextId, logs, nextLogId, clock>>

-----------------------------------------------------------------------------
(* SpecMedicine: get_medicine_adherence for a user with two reminders of one *)
(* medicine and one of another, next to a second user.                       *)

MaxMedicineRows == 3

MedicineReminders ==
    LET p(m) == [ medicine_id |-> m, reminder_time |-> 0, frequency |-> DAILY,
                  specific_days |-> NoDays, start_date |-> 0, end_date |-> None,
                  is_active |-> TRUE ]
    IN  (1 :> NewReminder(1, p(1))) @@ (2 :> NewReminder(1, p(1)))
        @@ (3 :> NewReminder(1, p(4))) @@ (4 :> NewReminder(2, p(2)))

InitMedicine ==
    /\ reminders = MedicineReminders
    /\ nextId = 5
    /\ \E T \in TablesUpTo(DOMAIN MedicineReminders, Days, MaxMedicineRows) :
          /\ TableReachable(T)
          /\ logs = TableLogs(T)
          /\ nextLogId = Len(T) + 1
    /\ clock = combine(MaxDay, TimeMax)
    /\ last = NoRequest
    /\ inflight = NoInflight
    /\ notifications = <<>>

NextMedicine ==
    \E uid \in Users, start \in Days, end \in Days :
        get_medicine_adherence_request(uid, start, end)

SpecMedicine == InitMedicine /\ [][NextMedicine]_vars

\* The user's rows of the window that belong to a medicine, by status.
MedicineEvents(m, status) ==
    { i \in UserEvents(last.user, last.start, last.end, status) : MedicineOf(i) = m }

\* The medicines of the report are those with a row of the user in the window,
\* each once, with the counts of its own rows, in non-increasing order of rate.
MedicinePartitionRight ==
    LET ms == last.report.medicines
    IN  /\ { ms[k].medicine_id : k \in DOMAIN ms } =
              { MedicineOf(i) :
                  i \in UNION { UserEvents(last.user, last.start, last.end, st) :
                                  st \in {TAKEN, SKIPPED, MISSED} } }
        /\ \A j \in DOMAIN ms : \A k \in DOMAIN ms :
              ms[j].medicine_id = ms[k].medicine_id => j = k
        /\ \A k \in DOMAIN ms :
              /\ ms[k].taken = Cardinality(MedicineEvents(ms[k].medicine_id, TAKEN))
              /\ ms[k].skipped = Cardinality(MedicineEvents(ms[k].medicine_id, SKIPPED))
              /\ ms[k].missed = Cardinality(MedicineEvents(ms[k].medicine_id, MISSED))
              /\ ms[k].total_scheduled = ms[k].taken + ms[k].skipped + ms[k].missed
              /\ ms[k].total_scheduled > 0
        /\ \A j \in DOMAIN ms : \A k \in DOMAIN ms :
              j < k => ms[j].adherence_rate >= ms[k].adherence_rate

RECURSIVE SumOver(_, _)
SumOver(ms, field) ==
    IF ms = <<>> THEN 0
    ELSE ms[Len(ms)][field] + SumOver(SubSeq(ms, 1, Len(ms) - 1), field)

\* C13 as stated: the report partitions the user's rows of the window by
\* medicine, each rate is taken / total_scheduled * 100 (here in hundredths), the
\* list is in non-increasing order of rate, and overall_adherence is
\* (sum of taken) / (sum of total_scheduled) * 100, 0 without rows.
C13_ExactMedicineRates ==
    last.op = "by_medicine" =>
        LET ms == last.report.medicines
            st == SumOver(ms, "taken")
            sn == SumOver(ms, "total_scheduled")
        IN  /\ MedicinePartitionRight
            /\ \A k \in DOMAIN ms :
                  ms[k].adherence_rate * ms[k].total_scheduled = 10000 * ms[k].taken
            /\ IF sn = 0 THEN last.report.overall_adherence = 0
               ELSE last.report.overall_adherence * sn = 10000 * st

\* Whether rate is num / den * 100 to the nearest hundredth.
NearestHundredth(rate, num, den) ==
    2 * (rate * den - 10000 * num) <= den /\ 2 * (10000 * num - rate * den) <= den

\* C13 amended: the same, with each rate and overall_adherence rounded to two
\* decimals (the nearest hundredth), the order being that of the rounded rates.
C13_RoundedMedicineRates ==
    last.op = "by_medicine" =>
        LET ms == last.report.medicines
            st == SumOver(ms, "taken")
            sn == SumOver(ms, "total_scheduled")
        IN  /\ MedicinePartitionRight
            /\ \A k \in DOMAIN ms :
                  NearestHundredth(ms[k].adherence_rate, ms[k].taken,
                                   ms[k].total_scheduled)
            /\ IF sn = 0 THEN last.report.overall_adherence = 0
               ELSE NearestHundredth(last.report.overall_adherence, st, sn)

\* C13 witness: two medicines, the one whose rows came second first in the list
\* with the higher rate, two reminders of one medicine counted together, and an
\* overall adherence of 33.33.
C13_Witness ==
    /\ last.op = "by_medicine"
    /\ Len(last.report.medicines) = 2
    /\ last.report.medicines[1].adherence_rate > last.report.medicines[2].adherence_rate
    /\ \E i \in DOMAIN logs : \E j \in DOMAIN logs :
          /\ i < j
          /\ MedicineOf(i) = last.report.medicines[2].medicine_id
          /\ MedicineOf(j) = last.report.medicines[1].medicine_id
          /\ \A k \in DOMAIN logs : MedicineOf(k) = MedicineOf(j) => i < k
    /\ \E k \in 1..2 : \E i \in DOMAIN logs : \E j \in DOMAIN logs :
          /\ logs[i].reminder_id # logs[j].reminder_id
          /\ MedicineOf(i) = last.report.medicines[k].medicine_id
          /\ MedicineOf(j) = last.report.medicines[k].medicine_id
    /\ last.report.overall_adherence = 3333

-----------------------------------------------------------------------------
(* SpecCreate: create, update and delete by two users who own medicines, with *)
(* request bodies of every recurrence and date order.                        *)

MaxOwnedReminders == 1

\* ReminderCreate bodies for the medicines of user 1 (1, 4), of user 2 (2) and
\* of nobody (3).
OwnedPayloads ==
    { [ medicine_id   |-> m,
        reminder_time |-> 0,
        frequency     |-> fd[1],
        specific_days |-> fd[2],
        start_date    |-> s,
        end_date      |-> e,
        is_active     |-> TRUE ] :
      m \in 1..4,
      fd \in { <<DAILY, NoDays>>, <<SPECIFIC_DAYS, {}>>, <<SPECIFIC_DAYS, {0}>> },
      s \in Days, e \in {None} \cup Days }

\* ReminderUpdate bodies.
OwnedUpdates ==
    { [specific_days |-> {}], [specific_days |-> NoDays],
      [frequency |-> SPECIFIC_DAYS], [is_active |-> FALSE] }
    \cup { [end_date |-> e] : e \in Days }
    \cup { [start_date |-> s] : s \in Days }

Owns(uid, m) == m \in DOMAIN MedicineOwner /\ MedicineOwner[m] = uid

NextCreate ==
    \/ \E uid \in Users, p \in OwnedPayloads :
          /\ nextId <= MaxOwnedReminders \/ ~Owns(uid, p.medicine_id)
          /\ create_reminder(uid, p)
    \/ \E rid \in ReminderIds, uid \in Users, upd \in OwnedUpdates :
          update_reminder(rid, uid, upd)
    \/ \E rid \in ReminderIds, uid \in Users : delete_reminder(rid, uid)

SpecCreate == Init /\ [][NextCreate]_vars

\* C14: a create answers ok only by persisting one reminder of the caller for a
\* medicine the caller owns, a refused create persists nothing, and after every
\* step (updates included) each reminder's medicine is owned by the reminder's
\* user.
C14_CreateNeedsOwnedMedicine ==
    [][ /\ (last'.op = "create" /\ last'.res = "ok") =>
              /\ DOMAIN reminders' = DOMAIN reminders \cup {last'.rid}
              /\ last'.rid \notin DOMAIN reminders
              /\ reminders'[last'.rid].user_id = last'.user
              /\ Owns(last'.user, reminders'[last'.rid].medicine_id)
              /\ \A r \in DOMAIN reminders : reminders'[r] = reminders[r]
        /\ (last'.op = "create" /\ last'.res # "ok") =>
              (reminders' = reminders /\ logs' = logs)
        /\ \A r \in DOMAIN reminders' :
              Owns(reminders'[r].user_id, reminders'[r].medicine_id) ]_vars

\* C14 witness: a create of user 1 was refused while user 2 has a reminder for
\* the medicine user 2 owns.
C14_Witness ==
    /\ last.op = "create"
    /\ last.res = "bad_request"
    /\ last.user = 1
    /\ \E r \in DOMAIN reminders :
          reminders[r].user_id = 2 /\ reminders[r].medicine_id = 2

\* C15: each persisted specific-weekdays reminder has a non-empty weekday set
\* and each persisted reminder with an end_date has end_date >= start_date.
C15_ValidatedReminders ==
    \A r \in DOMAIN reminders :
        /\ reminders[r].frequency = SPECIFIC_DAYS =>
              (reminders[r].specific_days # NoDays /\ reminders[r].specific_days # {})
        /\ reminders[r].end_date # None =>
              reminders[r].end_date >= reminders[r].start_date

-----------------------------------------------------------------------------
(* SpecDelete: two users create daily reminders for their medicines, mark    *)
(* them over the days and delete them.                                      *)

DeletePayloads ==
    { [ medicine_id   |-> m,
        reminder_time |-> 0,
        frequency     |-> DAILY,
        specific_days |-> NoDays,
        start_date    |-> 0,
        end_date      |-> None,
        is_active     |-> TRUE ] : m \in {1, 2} }

NextDelete ==
    \/ Tick
    \/ \E uid \in Users, p \in DeletePayloads : create_reminder(uid, p)
    \/ \E rid \in ReminderIds, uid \in Users : mark_reminder_taken(rid, uid)
    \/ \E rid \in ReminderIds, uid \in Users : mark_reminder_skipped(rid, uid)
    \/ \E rid \in ReminderIds, uid \in Users : delete_reminder(rid, uid)

SpecDelete == Init /\ [][NextDelete]_vars


(* Deletion *)

\* The rows that are not of the reminder a step deleted, in their order.
RowsOfOthers == SelectSeq(logs, LAMBDA l : l.reminder_id # last'.rid)

\* The stored rows of a user's reminders on some days with some statuses.
StoredRows(uid, days, statuses) ==
    { i \in DOMAIN logs :
        /\ logs[i].reminder_id \in DOMAIN reminders
        /\ reminders[logs[i].reminder_id].user_id = uid
        /\ DateOf(logs[i].scheduled_time) \in days
        /\ logs[i].status \in statuses }

StoredCount(uid, d, status) == Cardinality(StoredRows(uid, {d}, {status}))

\* Stats, daily series, streak and per-medicine adherence of a user are those of
\* the stored rows.
AggregatesOfStoredRows(uid) ==
    /\ get_adherence_stats(uid, 0, MaxDay).total_scheduled =
          Cardinality(StoredRows(uid, Days, {TAKEN, SKIPPED, MISSED}))
    /\ get_adherence_stats(uid, 0, MaxDay).taken =
          Cardinality(StoredRows(uid, Days, {TAKEN}))
    /\ \A k \in 1..(MaxDay + 1) :
          LET e == get_daily_adherence(uid, MaxDay + 1)[k]
          IN  /\ e.taken = StoredCount(uid, e.date, TAKEN)
              /\ e.skipped = StoredCount(uid, e.date, SKIPPED)
              /\ e.missed = StoredCount(uid, e.date, MISSED)
    /\ get_adherence_streak(uid).longest_streak <=
          Cardinality(StoredRows(uid, Days, {TAKEN}))
    /\ get_adherence_streak(uid).current_streak =
          Cardinality({ d \in 0..today :
              /\ StoredCount(uid, d, TAKEN) > 0
              /\ StoredCount(uid, d, SKIPPED) = 0
              /\ StoredCount(uid, d, MISSED) = 0
              /\ \A f \in d..(today - 1) :
                    StoredCount(uid, f, SKIPPED) = 0 /\ StoredCount(uid, f, MISSED) = 0 })
    /\ SumOver(get_medicine_adherence(uid, 0, MaxDay).medicines, "total_scheduled") =
          Cardinality(StoredRows(uid, Days, {TAKEN, SKIPPED, MISSED}))

\* C16: a delete by the owner removes the reminder and exactly its rows, leaving
\* every other reminder and row as it was; and in every state each row
\* references an existing reminder and stats, daily series, streak and
\* per-medicine adherence of every user are those of the stored rows, so the rows
\* of a deleted reminder contribute to none of them.
C16_DeleteCascades ==
    /\ [][ (last'.op = "delete" /\ last'.res = "ok") =>
              /\ last'.rid \in DOMAIN reminders
              /\ reminders[last'.rid].user_id = last'.user
              /\ DOMAIN reminders' = DOMAIN reminders \ {last'.rid}
              /\ \A r \in DOMAIN reminders' : reminders'[r] = reminders[r]
              /\ logs' = RowsOfOthers ]_vars
    /\ [](/\ \A i \in DOMAIN logs : logs[i].reminder_id \in DOMAIN reminders
          /\ \A uid \in Users : AggregatesOfStoredRows(uid))

\* C16 witness: a reminder with a row was deleted and the row of another
\* user's reminder is still stored.
C16_Witness ==
    /\ last.op = "delete"
    /\ last.res = "ok"
    /\ nextLogId - 1 > Len(logs)
    /\ \E i \in DOMAIN logs : reminders[logs[i].reminder_id].user_id # last.user

-----------------------------------------------------------------------------
(* Concurrent marks: a mark request is two steps of its own session, the read *)
(* of the reminder in a new transaction and, later, the insert and commit.    *)
(* created_at is the server default now(), in PostgreSQL the start time of    *)
(* the inserting transaction.                                                 *)

StatusOf(op) == IF op = "mark_taken" THEN TAKEN ELSE SKIPPED

\* Mutant: created_at is the time of the insert.
RowCreatedAt_insert_time(r) == inflight.stamp

\* created_at of the row a request in flight inserts.
RowCreatedAt(r) == r.began

\* mark_reminder_taken / mark_reminder_skipped up to the insert: the transaction
\* begins, get_reminder_by_id answers, today and now are read.
begin_mark(op, rid, uid) ==
    IF get_reminder_by_id(rid, uid) = None
    THEN /\ last' = Response(op, uid, rid, "not_found", 0)
         /\ UNCHANGED <<notifications, reminders, nextId, logs, nextLogId, clock, inflight>>
    ELSE /\ nextLogId + Len(inflight.reqs) <= MaxLogs
         /\ inflight' =
               [ stamp |-> inflight.stamp + 1,
                 reqs  |-> Append(inflight.reqs,
                             [ op         |-> op,
                               user       |-> uid,
                               rid        |-> rid,
                               began      |-> inflight.stamp,
                               scheduled  |-> combine(today, reminders[rid].reminder_time),
                               taken_time |-> IF op = "mark_taken" THEN clock ELSE None ]) ]
         /\ UNCHANGED <<notifications, reminders, nextId, logs, nextLogId, clock, last>>

\* The rest of the request: db.add(log), commit, and the response. The insert of
\* a row for a reminder deleted in between violates the foreign key.
commit_mark(q) ==
    LET r    == inflight.reqs[q]
        rest == [ stamp |-> inflight.stamp + 1,
                  reqs  |-> SubSeq(inflight.reqs, 1, q - 1)
                            \o SubSeq(inflight.reqs, q + 1, Len(inflight.reqs)) ]
    IN  IF r.rid \in DOMAIN reminders
        THEN /\ logs' = Append(logs, NewLog(nextLogId, r.rid, r.scheduled, r.taken_time,
                                            StatusOf(r.op), RowCreatedAt(r)))
             /\ nextLogId' = nextLogId + 1
             /\ last' = Response(r.op, r.user, r.rid, "ok", 0)
             /\ inflight' = rest
             /\ UNCHANGED <<notifications, reminders, nextId, clock>>
        ELSE /\ last' = Response(r.op, r.user, r.rid, "error", 0)
             /\ inflight' = rest
             /\ UNCHANGED <<notifications, reminders, nextId, logs, nextLogId, clock>>

-----------------------------------------------------------------------------
(* SpecConcurrent: marks of the owner and of a second user that overlap.    *)

NextConcurrent ==
    \/ Tick
    \/ \E uid \in Users, p \in DeletePayloads : create_reminder(uid, p)
    \/ \E op \in Marks, rid \in ReminderIds, uid \in Users : begin_mark(op, rid, uid)
    \/ \E q \in DOMAIN inflight.reqs : commit_mark(q)

SpecConcurrent == Init /\ [][NextConcurrent]_vars

\* The request in flight that a step completed.
Committed ==
    { q \in DOMAIN inflight.reqs :
        inflight'.reqs = SubSeq(inflight.reqs, 1, q - 1)
                         \o SubSeq(inflight.reqs, q + 1, Len(inflight.reqs)) }

\* Every mark in flight completes with ok and appends its row, leaving the
\* stored rows as they were.
MarksAllAppend ==
    Len(inflight'.reqs) < Len(inflight.reqs) =>
        /\ last'.res = "ok"
        /\ Len(logs') = Len(logs) + 1
        /\ SubSeq(logs', 1, Len(logs)) = logs
        /\ logs'[Len(logs')].reminder_id = last'.rid
        /\ logs'[Len(logs')].status = StatusOf(last'.op)

\* C17 as stated: once no mark is in flight, every mark that was accepted has
\* its row and the status of a reminder with rows today is that of the row
\* persisted last.
C17_PersistedLastWins ==
    inflight.reqs = <<>> =>
        /\ Len(logs) = nextLogId - 1
        /\ \A rid \in DOMAIN reminders :
              EventsOn(rid, today) # {} =>
                  get_reminder_status(rid, today)
                      = logs[Newest(EventsOn(rid, today))].status

\* C17 amended: every mark in flight succeeds and appends its row, and the commit
\* of a mark makes its status the status of the reminder for that day exactly
\* when its transaction began after those of all rows of that day; otherwise the
\* status stays what it was.
C17_BegunLastWins ==
    [][ /\ MarksAllAppend
        /\ \A q \in Committed :
              \A r \in { inflight.reqs[q] } : \A d \in { DateOf(r.scheduled) } :
                  get_reminder_status(r.rid, d)' =
                      IF \A i \in EventsOn(r.rid, d) : logs[i].created_at < r.began
                      THEN StatusOf(r.op)
                      ELSE get_reminder_status(r.rid, d) ]_vars

\* C17 witness: a taken and a skipped row of one reminder today, none in flight,
\* the row persisted last from the transaction that began first, and the status
\* that of the other row.
C17_Witness ==
    /\ inflight.reqs = <<>>
    /\ \E rid \in DOMAIN reminders :
          /\ Cardinality(EventsOn(rid, today)) = 2
          /\ \E i \in EventsOn(rid, today) : \E j \in EventsOn(rid, today) :
                /\ i < j
                /\ logs[i].status # logs[j].status
                /\ logs[j].created_at < logs[i].created_at
                /\ get_reminder_status(rid, today) = logs[i].status

-----------------------------------------------------------------------------
(* Store failures: the store raises during a request. The service catches    *)
(* nothing, the endpoint's `except Exception` answers 500 and get_db rolls   *)
(* the session back.                                                        *)

AggregationOps == {"stats", "daily", "streak", "by_medicine"}
WriteOps == {"mark_taken", "mark_skipped", "create"}

\* The response to a request during which the store raised.
FailureResponse(op, uid, rid) ==
    [ op |-> op, user |-> uid, rid |-> rid, res |-> "error", count |-> 0,
      store_failed |-> TRUE ]

\* Mutant: an aggregation read answers a zero-filled result.
store_failure_degrades(op, uid, rid) ==
    /\ last' = IF op \in AggregationOps
               THEN [ FailureResponse(op, uid, rid) EXCEPT !.res = "ok" ]
               ELSE FailureResponse(op, uid, rid)
    /\ UNCHANGED <<notifications, reminders, nextId, logs, nextLogId, clock, inflight>>

\* The store raises before anything is committed.
store_failure(op, uid, rid) ==
    /\ last' = FailureResponse(op, uid, rid)
    /\ UNCHANGED <<notifications, reminders, nextId, logs, nextLogId, clock, inflight>>

\* The store raises in db.refresh(log), after the commit of a mark.
store_failure_at_refresh(op, rid, uid) ==
    /\ get_reminder_by_id(rid, uid) # None
    /\ nextLogId <= MaxLogs
    /\ logs' = Append(logs,
                  NewLog(nextLogId, rid, combine(today, reminders[rid].reminder_time),
                         IF op = "mark_taken" THEN clock ELSE None, StatusOf(op),
                         nextLogId))
    /\ nextLogId' = nextLogId + 1
    /\ last' = FailureResponse(op, uid, rid)
    /\ UNCHANGED <<notifications, reminders, nextId, clock, inflight>>

-----------------------------------------------------------------------------
(* SpecFailure: requests of two users, any of which may meet a failing store. *)

NextFailure ==
    \/ \E uid \in Users, p \in DeletePayloads : create_reminder(uid, p)
    \/ \E rid \in ReminderIds, uid \in Users : mark_reminder_taken(rid, uid)
    \/ \E rid \in ReminderIds, uid \in Users : mark_reminder_skipped(rid, uid)
    \/ \E uid \in Users : get_adherence_stats_request(uid, 0, MaxDay)
    \/ \E uid \in Users : get_daily_adherence_request(uid, 1)
    \/ \E uid \in Users : get_adherence_streak_request(uid)
    \/ \E uid \in Users : get_medicine_adherence_request(uid, 0, MaxDay)
    \/ \E op \in AggregationOps, uid \in Users : store_failure(op, uid, 0)
    \/ \E op \in WriteOps, uid \in Users, rid \in {0} \cup ReminderIds :
          (op = "create" <=> rid = 0) /\ store_failure(op, uid, rid)
    \/ \E op \in Marks, rid \in ReminderIds, uid \in Users :
          store_failure_at_refresh(op, rid, uid)

SpecFailure == Init /\ [][NextFailure]_vars

StoreFailed == "store_failed" \in DOMAIN last

\* C18 as stated: an aggregation read that meets a failing store answers a
\* result, not an error, and a mark or create that meets one answers an error.
C18_ReadsDegrade ==
    StoreFailed =>
        /\ last.op \in AggregationOps => last.res = "ok"
        /\ last.op \in WriteOps => last.res = "error"

\* C18 amended: every request that meets a failing store, aggregation read or
\* write alike, answers an error and carries no result.
C18_FailuresSurface ==
    StoreFailed =>
        /\ last.op \in AggregationOps \cup WriteOps
        /\ last.res = "error"
        /\ DOMAIN last \cap {"stats", "daily", "streak", "report"} = {}

\* C18 witness: an aggregation read of a user with stored rows met a failing
\* store.
C18_Witness ==
    /\ StoreFailed
    /\ last.op \in AggregationOps
    /\ last.res = "error"
    /\ \E i \in DOMAIN logs : reminders[logs[i].reminder_id].user_id = last.user

-----------------------------------------------------------------------------
(* The daily job of the background scheduler.                                *)

\* CronTrigger(hour=8, minute=0): the tick of the day at which the job runs.
DailyJobTime == 1

\* run_daily_notifications: the import of `async_session` from app.database,
\* which defines only AsyncSessionLocal, raises ImportError inside the try;
\* the except branch logs the error. Nothing is read or written.
\* (run_all_daily_checks, which the job would call, checks stock, refills,
\* prescription expiry and adherence patterns and calls no sweep either.)
run_daily_notifications ==
    /\ clock % TicksPerDay = DailyJobTime
    /\ last' = Response("daily_job", 0, 0, "error", 0)
    /\ UNCHANGED <<notifications, inflight, reminders, nextId, logs, nextLogId, clock>>

-----------------------------------------------------------------------------
(* SpecScheduler: users create and mark reminders, time passes, the daily    *)
(* job runs; no client requests the sweep.                                  *)

NextScheduler ==
    \/ Tick
    \/ \E uid \in Users, p \in CreatePayloads : create_reminder(uid, p)
    \/ \E rid \in ReminderIds, uid \in Users : mark_reminder_taken(rid, uid)
    \/ run_daily_notifications

SpecScheduler == Init /\ [][NextScheduler]_vars

\* C19: a run of the daily job leaves a missed event for every occurrence due
\* today, of every user, that was overdue with no event when the job started.
C19_DailyJobSweeps ==
    [][ last'.op = "daily_job" =>
          \A uid \in Users : \A rid \in ToMarkMissed(uid) \cap get_today_reminders(uid) :
             \E i \in DOMAIN logs' :
                /\ logs'[i].reminder_id = rid
                /\ logs'[i].status = MISSED
                /\ DateOf(logs'[i].scheduled_time) = today ]_vars

-----------------------------------------------------------------------------
(* The today-with-status listing.                                            *)

\* The attributes of a Reminder row: the columns of the model and of BaseModel.
ReminderColumns ==
    { "id", "created_at", "updated_at", "reminder_time", "frequency",
      "specific_days", "dosage_amount", "dosage_unit", "start_date", "end_date",
      "is_active", "notes", "user_id", "medicine_id", "prescription_id" }

\* The attributes `reminder_dict` reads from the row.
ReminderDictReads ==
    { "id", "user_id", "medicine_id", "prescription_id", "reminder_time",
      "frequency", "specific_days", "interval_days", "dosage_amount",
      "dosage_unit", "start_date", "end_date", "is_active", "notes",
      "created_at", "updated_at" }

\* `is_pending` of a reminder with the resolved status.
IsPending(rid, status) ==
    /\ clock >= combine(today, reminders[rid].reminder_time)
    /\ status \notin {TAKEN, SKIPPED}

\* `display_status`: the mapping of the resolved status for the frontend.
DisplayStatus(status, is_pending) ==
    IF status = SKIPPED THEN "upcoming"
    ELSE IF status = MISSED /\ ~is_pending THEN "missed"
    ELSE status

\* The reminders of today the loop does not `continue` past: those whose
\* resolved status is neither taken nor skipped.
Listed(uid) ==
    { rid \in get_today_reminders(uid) :
        get_reminder_status(rid, today) \notin {TAKEN, SKIPPED} }

\* One entry of the result.
StatusEntry(rid) ==
    LET status == get_reminder_status(rid, today)
    IN  [ id         |-> rid,
          time       |-> combine(today, reminders[rid].reminder_time),
          status     |-> DisplayStatus(status, IsPending(rid, status)),
          is_pending |-> IsPending(rid, status) ]

\* GET /reminders/today-with-status. Building the entry of a listed reminder
\* reads an attribute the row does not have; the AttributeError ends the
\* request with a 500. The result is a list sorted by time; its entries, which
\* differ in id, are kept here as a set.
get_today_reminders_with_status(uid) ==
    /\ last' = IF Listed(uid) # {} /\ ~(ReminderDictReads \subseteq ReminderColumns)
               THEN [ op |-> "today_with_status", user |-> uid, rid |-> 0,
                      res |-> "error", count |-> 0, items |-> {} ]
               ELSE [ op |-> "today_with_status", user |-> uid, rid |-> 0,
                      res |-> "ok", count |-> 0,
                      items |-> { StatusEntry(rid) : rid \in Listed(uid) } ]
    /\ UNCHANGED <<notifications, inflight, reminders, nextId, logs, nextLogId, clock>>

-----------------------------------------------------------------------------
(* SpecListing: reminders are created, taken, skipped and swept while time   *)
(* passes, and the users ask for the listing.                               *)

NextListing ==
    \/ Tick
    \/ \E uid \in Users, p \in CreatePayloads : create_reminder(uid, p)
    \/ \E rid \in ReminderIds, uid \in Users : mark_reminder_taken(rid, uid)
    \/ \E rid \in ReminderIds, uid \in Users : mark_reminder_skipped(rid, uid)
    \/ \E uid \in Users : mark_overdue_reminders_as_missed(uid)
    \/ \E uid \in Users : get_today_reminders_with_status(uid)

SpecListing == Init /\ [][NextListing]_vars

\* C20: the listing shows every reminder of today whose latest event today is
\* skipped, as "upcoming" while now is before its scheduled time and as
\* "skipped" once the scheduled time has passed.
C20_SkippedShown ==
    last.op = "today_with_status" =>
        \A rid \in get_today_reminders(last.user) :
            (/\ get_reminder_status_log(rid, today) # None
             /\ get_reminder_status(rid, today) = SKIPPED)
            => \E e \in last.items :
                  /\ e.id = rid
                  /\ e.status = IF clock < combine(today, reminders[rid].reminder_time)
                                THEN "upcoming" ELSE SKIPPED

-----------------------------------------------------------------------------
(* The event log under the whole engine (Spec) *)

\* C21: a sweep never appends a missed row for a reminder that already has a
\* row, of any status, scheduled today.
C21_SweepSkipsRemindersWithEvent ==
    [][ (last'.op = "sweep") =>
          \A rid \in AppendedFor : EventsOn(rid, today) = {} ]_vars


-----------------------------------------------------------------------------
(* SpecLog: the engine with its reads: every write of Spec and every read    *)
(* request, by both users.                                                  *)

ReadOps == {"today", "today_with_status", "stats", "daily", "streak", "by_medicine"}

NextLog ==
    \/ Next
    \/ \E uid \in Users : get_today_request(uid)
    \/ \E uid \in Users : get_today_reminders_with_status(uid)
    \/ \E uid \in Users : get_adherence_stats_request(uid, 0, MaxDay)
    \/ \E uid \in Users : get_daily_adherence_request(uid, 1)
    \/ \E uid \in Users : get_adherence_streak_request(uid)
    \/ \E uid \in Users : get_medicine_adherence_request(uid, 0, MaxDay)

SpecLog == Init /\ [][NextLog]_vars

\* The stored rows, as a set (rows differ in id).
Rows == { logs[i] : i \in DOMAIN logs }

RowIds == { logs[i].id : i \in DOMAIN logs }

\* C22: the event log is append-only. A step adds rows only if it is a mark or
\* a sweep, and the rows it adds have fresh ids; it removes rows only if it is
\* the delete of a reminder, and then exactly the rows of that reminder; every
\* other stored row stays as it is, field by field; reads, update_reminder and
\* create_reminder leave the log as it is.
C22_AppendOnly ==
    [][ /\ (Rows' \ Rows # {}) =>
              /\ last'.op \in Marks \cup {"sweep"}
              /\ last'.res = "ok"
              /\ \A r \in Rows' \ Rows : r.id \notin RowIds
        /\ (Rows \ Rows' # {}) =>
              /\ last'.op = "delete"
              /\ last'.res = "ok"
              /\ Rows \ Rows' = { r \in Rows : r.reminder_id = last'.rid }
              /\ \A r \in Rows \ Rows' : r.id \notin RowIds'
        /\ (last'.op \in ReadOps \cup {"update", "create", "tick"}) => logs' = logs
      ]_vars

\* C22 witness: an update changed the time of a reminder that has a row today,
\* and the row is still scheduled at the old time.
C22_Witness ==
    /\ last.op = "update"
    /\ last.res = "ok"
    /\ \E i \in EventsOn(last.rid, today) :
          logs[i].scheduled_time # combine(today, reminders[last.rid].reminder_time)


\* C23: every stored row has status taken, skipped or missed and carries a
\* taken_time exactly when its status is taken; the row a mark_taken appends
\* has the time of the call as taken_time, the rows a mark_skipped or a sweep
\* appends have none.
C23_TakenTimeIffTaken ==
    /\ [][ \A i \in (Len(logs) + 1)..Len(logs') :
              /\ last'.op \in Marks \cup {"sweep"}
              /\ logs'[i].status = (IF last'.op = "sweep" THEN MISSED
                                    ELSE StatusOf(last'.op))
              /\ logs'[i].taken_time = (IF last'.op = "mark_taken" THEN clock
                                        ELSE None) ]_vars
    /\ [](\A i \in DOMAIN logs :
              /\ logs[i].status \in {TAKEN, SKIPPED, MISSED}
              /\ (logs[i].taken_time # None) <=> (logs[i].status = TAKEN))

\* C23 witness: a taken row with the time of a call after the start of the day
\* next to a skipped or missed row.
C23_Witness ==
    \E i, j \in DOMAIN logs :
        /\ logs[i].status = TAKEN
        /\ logs[i].taken_time > 0
        /\ logs[j].status \in {SKIPPED, MISSED}
        /\ logs[j].taken_time = None


\* C24: whenever a mark or a sweep appends a row for (reminder, today), the
\* reminder is one of today's reminders of its owner: active, within its
\* validity window and with a recurrence rule that is due today.
C24_EventsOnlyForScheduled ==
    [][ (last'.op \in Marks \cup {"sweep"}) =>
          \A rid \in AppendedFor :
              rid \in get_today_reminders(reminders[rid].user_id) ]_vars


-----------------------------------------------------------------------------
(* The streak record *)

\* current_streak after the iteration of day d: the perfect days up to d that
\* no later day up to d has reset.
CurrentAfter(uid, d) ==
    Cardinality({ e \in 0..d :
        /\ PerfectDay(uid, e)
        /\ \A f \in e..d : ~BreakingDay(uid, f) })

\* C25: longest_streak is the largest value current_streak has after an
\* iteration of the scan, so longest_streak >= current_streak >= 0;
\* last_taken_date is the latest perfect day of the scan, and it is absent
\* exactly when longest_streak = 0.
C25_LongestIsMaxOfCurrent ==
    last.op = "streak" =>
        LET s == last.streak
            perfect == { d \in 0..today : PerfectDay(last.user, d) }
        IN  /\ s.current_streak = CurrentAfter(last.user, today)
            /\ \A d \in 0..today : CurrentAfter(last.user, d) <= s.longest_streak
            /\ \/ s.longest_streak = 0
               \/ \E d \in 0..today : CurrentAfter(last.user, d) = s.longest_streak
            /\ s.longest_streak >= s.current_streak
            /\ s.current_streak >= 0
            /\ (s.last_taken_date = None) <=> (s.longest_streak = 0)
            /\ perfect = {} => s.last_taken_date = None
            /\ perfect # {} =>
                  /\ s.last_taken_date \in perfect
                  /\ \A d \in perfect : d <= s.last_taken_date

\* C25 witness: a streak of two perfect days, reset by a later day, and one
\* perfect day since.
C25_Witness ==
    /\ last.op = "streak"
    /\ last.streak.longest_streak = 2
    /\ last.streak.current_streak = 1
    /\ last.streak.last_taken_date = today


-----------------------------------------------------------------------------
(* Adherence notifications (NotificationTriggers) *)

STREAK_MILESTONES == {3, 7, 14, 30, 60, 90, 180, 365}

\* NotificationType.ADHERENCE.value
ADHERENCE == "adherence"

\* timedelta(hours=hours), in ticks.
Hours(hours) == (hours * TicksPerDay) \div 24

\* Notification(...) as create_notification stores it; the title tells the
\* streak notification from the drop alert.
NewNotification(uid, title) ==
    [ user_id        |-> uid,
      type           |-> ADHERENCE,
      title          |-> title,
      reference_type |-> "adherence",
      reference_id   |-> None,
      created_at     |-> clock ]

\* _was_notified_recently without reference_id: a notification of the user
\* with this type, created since the cutoff.
was_notified_recently(uid, notification_type, hours) ==
    \E i \in DOMAIN notifications :
        /\ notifications[i].user_id = uid
        /\ notifications[i].type = notification_type
        /\ notifications[i].created_at >= clock - Hours(hours)

\* The loop over STREAK_MILESTONES: a milestone the current streak has reached
\* and the longest streak has not.
NewMilestone(streak) ==
    \E milestone \in STREAK_MILESTONES :
        streak.current_streak >= milestone /\ streak.longest_streak < milestone

\* _create_adherence_streak_notification: the notifications it creates.
create_adherence_streak_notification(uid) ==
    IF was_notified_recently(uid, "adherence_streak", 24)
    THEN <<>>
    ELSE << NewNotification(uid, "Adherence Streak!") >>

RECURSIVE SumRates(_, _, _)
SumRates(series, a, b) ==
    IF a > b THEN 0 ELSE series[a].adherence_rate + SumRates(series, a + 1, b)

\* _check_adherence_drop: the average rate of the last 3 of the trailing 7
\* days is more than 20 points below that of the 4 days before (rates in
\* hundredths of a percent, both sides times 12).
check_adherence_drop(uid) ==
    LET daily_adherence == get_daily_adherence(uid, 7)
        this_week == SumRates(daily_adherence, 5, 7)
        last_week == SumRates(daily_adherence, 1, 4)
    IN  IF 4 * this_week < 3 * last_week - 12 * 2000
           /\ ~was_notified_recently(uid, "adherence_drop", 24)
        THEN << NewNotification(uid, "Adherence Drop Alert") >>
        ELSE <<>>

MaxNotifications == 2

\* check_adherence_patterns (POST /notifications/triggers/check-adherence and
\* the daily checks): the drop check sees the notification the streak check
\* has just stored.
check_adherence_patterns(uid) ==
    LET streak  == get_adherence_streak(uid)
        created == (IF NewMilestone(streak)
                    THEN create_adherence_streak_notification(uid) ELSE <<>>)
                   \o check_adherence_drop(uid)
    IN  /\ Len(notifications) + Len(created) <= MaxNotifications
        /\ notifications' = notifications \o created
        /\ last' = Response("check_adherence", uid, 0, "ok", Len(created))
        /\ UNCHANGED <<inflight, reminders, nextId, logs, nextLogId, clock>>

-----------------------------------------------------------------------------
(* SpecNotify: the adherence check over the tables of SpecStreak.            *)

NextNotify == \E uid \in Users : check_adherence_patterns(uid)

SpecNotify == InitStreak /\ [][NextNotify]_vars

\* C26: an adherence check of a user whose current streak is a milestone, with
\* no adherence notification of the user created in the 24 hours before, stores
\* a streak notification for the user.
C26_MilestoneNotifies ==
    [][ ( /\ last'.op = "check_adherence"
          /\ get_adherence_streak(last'.user).current_streak \in STREAK_MILESTONES
          /\ ~was_notified_recently(last'.user, ADHERENCE, 24) )
        => \E i \in (Len(notifications) + 1)..Len(notifications') :
              /\ notifications'[i].user_id = last'.user
              /\ notifications'[i].title = "Adherence Streak!" ]_vars


-----------------------------------------------------------------------------
(* Reminders that are not yet due *)

\* C27: a reminder of today without a row today whose scheduled time is still
\* ahead resolves to a status that is none of taken, skipped and missed, and
\* the today-with-status listing has an entry for it with a pending or
\* upcoming status and is_pending = FALSE.
C27_NotYetDueIsListed ==
    last.op = "today_with_status" =>
        \A rid \in get_today_reminders(last.user) :
            (/\ EventsOn(rid, today) = {}
             /\ clock < combine(today, reminders[rid].reminder_time))
            => /\ get_reminder_status(rid, today) \notin {TAKEN, SKIPPED, MISSED}
               /\ \E e \in last.items :
                     /\ e.id = rid
                     /\ e.status \in {"pending", "upcoming"}
                     /\ e.is_pending = FALSE


-----------------------------------------------------------------------------
(* The sweep on a reminder with several rows *)

\* C28: every sweep completes and returns a count; for an overdue reminder
\* that already has two or more rows today it appends nothing.
C28_SweepCompletes ==
    [][ (last'.op = "sweep") =>
          /\ last'.res = "ok"
          /\ \A rid \in AppendedFor : Cardinality(EventsOn(rid, today)) < 2 ]_vars


-----------------------------------------------------------------------------
(* Concurrent sweeps: a sweep is two steps of its own session, the reads (the *)
(* reminders of the user and, for each overdue one, the existing-row check)   *)
(* and, later, the commit of the rows it added. Nothing locks the rows or the *)
(* reminder between the two, and reminder_logs has no unique constraint.      *)

MaxSweeps == 2
MaxStamp == 5

RECURSIVE PendingRows(_)
PendingRows(reqs) ==
    IF reqs = <<>> THEN 0 ELSE Len(Head(reqs).found) + PendingRows(Tail(reqs))

\* Mutant: the check looks at no stored row.
FoundWithoutRow_unchecked(uid) == Ascending(Overdue(uid))

\* The overdue reminders for which `existing_log` is None, in the order of the
\* loop.
FoundWithoutRow(uid) == Ascending(ToMarkMissed(uid))

\* mark_overdue_reminders_as_missed up to the commit: the queries of the loop.
begin_sweep(uid) ==
    IF \E rid \in Overdue(uid) : Cardinality(ExistingLogs(rid)) > 1
    THEN /\ last' = Response("sweep", uid, 0, "error", 0)
         /\ UNCHANGED <<notifications, reminders, nextId, logs, nextLogId, clock, inflight>>
    ELSE /\ Len(inflight.reqs) < MaxSweeps
         /\ inflight.stamp < MaxStamp
         /\ nextLogId - 1 + PendingRows(inflight.reqs) + Len(FoundWithoutRow(uid))
               <= MaxLogs
         /\ inflight' =
               [ stamp |-> inflight.stamp + 1,
                 reqs  |-> Append(inflight.reqs,
                             [ op        |-> "sweep",
                               user      |-> uid,
                               began     |-> inflight.stamp,
                               day       |-> today,
                               found     |-> FoundWithoutRow(uid) ]) ]
         /\ UNCHANGED <<notifications, reminders, nextId, logs, nextLogId, clock, last>>

\* The rows a sweep in flight has added to its session.
SweepRows(r) ==
    [ k \in 1..Len(r.found) |->
        NewLog(nextLogId + k - 1, r.found[k],
               combine(r.day, reminders[r.found[k]].reminder_time),
               None, MISSED, RowCreatedAt(r)) ]

\* `if missed_count > 0: await self.db.commit()` and the response.
commit_sweep(q) ==
    LET r == inflight.reqs[q]
    IN  /\ logs' = logs \o SweepRows(r)
        /\ nextLogId' = nextLogId + Len(r.found)
        /\ last' = Response("sweep", r.user, 0, "ok", Len(r.found))
        /\ inflight' = [ stamp |-> inflight.stamp + 1,
                         reqs  |-> SubSeq(inflight.reqs, 1, q - 1)
                                   \o SubSeq(inflight.reqs, q + 1, Len(inflight.reqs)) ]
        /\ UNCHANGED <<notifications, reminders, nextId, clock>>

-----------------------------------------------------------------------------
(* SpecSweeps: sweeps of two users that overlap.                            *)

NextSweeps ==
    \/ Tick
    \/ \E uid \in Users, p \in DeletePayloads : create_reminder(uid, p)
    \/ \E uid \in Users : begin_sweep(uid)
    \/ \E q \in DOMAIN inflight.reqs : commit_sweep(q)

SpecSweeps == Init /\ [][NextSweeps]_vars

MissedOn(rid, d) == { i \in EventsOn(rid, d) : logs[i].status = MISSED }

\* C29 as stated: once no sweep is in flight, no reminder has two missed rows
\* for one day.
C29_OneMissedPerDay ==
    inflight.reqs = <<>> =>
        \A rid \in DOMAIN reminders, d \in Days : Cardinality(MissedOn(rid, d)) <= 1

\* C29 amended: a sweep appends one missed row for every overdue reminder for
\* which its own check found no row, whatever has been committed since the
\* check; its check finds every row committed before it. So a reminder without
\* prior rows gets one missed row from sweeps that do not overlap and one from
\* each of those whose checks came before the first commit.
C29_OneMissedPerCheck ==
    [][ /\ \A q \in Committed :
              \A r \in { inflight.reqs[q] } :
                 /\ last'.res = "ok"
                 /\ last'.count = Len(r.found)
                 /\ Len(logs') = Len(logs) + Len(r.found)
                 /\ SubSeq(logs', 1, Len(logs)) = logs
                 /\ \A k \in 1..Len(r.found) :
                       /\ logs'[Len(logs) + k].reminder_id = r.found[k]
                       /\ logs'[Len(logs) + k].status = MISSED
                       /\ DateOf(logs'[Len(logs) + k].scheduled_time) = r.day
        /\ Len(inflight'.reqs) > Len(inflight.reqs) =>
              \A r \in { inflight'.reqs[Len(inflight'.reqs)] } :
                 { r.found[k] : k \in 1..Len(r.found) }
                    = { rid \in Overdue(r.user) : EventsOn(rid, today) = {} }
      ]_vars

\* C29 witness: two sweeps of one user overlapped and their reminder has two
\* missed rows today.
C29_Witness ==
    /\ inflight.reqs = <<>>
    /\ last.op = "sweep"
    /\ \E rid \in DOMAIN reminders :
          /\ reminders[rid].user_id = last.user
          /\ Cardinality(MissedOn(rid, today)) = 2


-----------------------------------------------------------------------------
(* Isolation of users *)

\* get_reminder_history with a page that holds every row: the entries of the
\* rows of the user's reminders scheduled in [start, end] and their number. The
\* rows come ordered by scheduled_time, latest first; rows of one instant in the
\* store's order, so the entries are kept as a set.
get_reminder_history(uid, start, end) ==
    [ items |-> { [ id             |-> logs[i].id,
                    medicine_id    |-> reminders[logs[i].reminder_id].medicine_id,
                    scheduled_time |-> logs[i].scheduled_time,
                    taken_time     |-> logs[i].taken_time,
                    status         |-> logs[i].status ] :
                  i \in LogsInRange(uid, start, end) },
      total |-> Cardinality(LogsInRange(uid, start, end)) ]

\* GET /reminders/history.
get_reminder_history_request(uid, start, end) ==
    /\ last' = [ op |-> "history", user |-> uid, rid |-> 0, res |-> "ok", count |-> 0,
                 history |-> get_reminder_history(uid, start, end) ]
    /\ UNCHANGED <<notifications, inflight, reminders, nextId, logs, nextLogId, clock>>

\* A ReminderUpdate body that moves a reminder to the end of the day.
IsolationUpdates ==
    { [reminder_time |-> MaxTime] }

-----------------------------------------------------------------------------
(* SpecIsolation: two users, each with a medicine of their own, who create,  *)
(* update, delete, mark and sweep, each also with the ids of the other's     *)
(* reminders, and read their history; user 1 starts with a taken reminder.   *)

NextIsolation ==
    \/ Tick
    \/ \E uid \in Users, p \in DeletePayloads : create_reminder(uid, p)
    \/ \E rid \in ReminderIds, uid \in Users, upd \in IsolationUpdates :
          update_reminder(rid, uid, upd)
    \/ \E rid \in ReminderIds, uid \in Users : delete_reminder(rid, uid)
    \/ \E rid \in ReminderIds, uid \in Users : mark_reminder_taken(rid, uid)
    \/ \E rid \in ReminderIds, uid \in Users : mark_reminder_skipped(rid, uid)
    \/ \E uid \in Users : mark_overdue_reminders_as_missed(uid)
    \/ \E uid \in Users : get_reminder_history_request(uid, 0, MaxDay)

\* User 1 has a reminder, taken at the start of day 0; one more reminder and
\* one more row can be stored.
InitIsolation ==
    /\ reminders = (1 :> StatsReminders[1])
    /\ nextId = MaxReminders
    /\ logs = << NewLog(1, 1, combine(0, 0), 0, TAKEN, 1) >>
    /\ nextLogId = MaxLogs
    /\ clock = 0
    /\ last = NoRequest
    /\ inflight = NoInflight
    /\ notifications = <<>>

SpecIsolation == InitIsolation /\ [][NextIsolation]_vars

\* The reminders of a user, by id.
RemindersOf(uid) ==
    [ rid \in { r \in DOMAIN reminders : reminders[r].user_id = uid } |-> reminders[rid] ]

\* The rows of the reminders of a user, in insertion order.
EventsOf(uid) ==
    SelectSeq(logs, LAMBDA l : l.reminder_id \in DOMAIN reminders
                               /\ reminders[l.reminder_id].user_id = uid)

\* What a user reads besides the daily series and the per-medicine report:
\* today's reminders, stats, streak and history.
Reads(uid) ==
    [ today   |-> get_today_reminders(uid),
      stats   |-> get_adherence_stats(uid, 0, MaxDay),
      streak  |-> get_adherence_streak(uid),
      history |-> get_reminder_history(uid, 0, MaxDay) ]

\* The rows of a user's reminders of a day (of the days, if d is a set) with one
\* of the statuses, by position in EventsOf.
OwnRows(uid, days, statuses) ==
    { i \in DOMAIN EventsOf(uid) :
        /\ DateOf(EventsOf(uid)[i].scheduled_time) \in days
        /\ EventsOf(uid)[i].status \in statuses }

AnyStatus == {TAKEN, SKIPPED, MISSED}

\* The daily series of a user is determined by the user's own rows and the day.
DailyFromOwnRows(uid) ==
    LET series == get_daily_adherence(uid, MaxDay + 1)
    IN  \A k \in 1..(MaxDay + 1) :
           LET d     == today - (MaxDay + 1 - k)
               total == Cardinality(OwnRows(uid, {d}, AnyStatus))
               taken == Cardinality(OwnRows(uid, {d}, {TAKEN}))
           IN  series[k] =
                 [ date           |-> d,
                   scheduled      |-> total,
                   taken          |-> taken,
                   skipped        |-> Cardinality(OwnRows(uid, {d}, {SKIPPED})),
                   missed         |-> Cardinality(OwnRows(uid, {d}, {MISSED})),
                   adherence_rate |-> IF total > 0 THEN RoundedRate(taken, total)
                                      ELSE 10000 ]

\* The per-medicine report of a user is determined by the user's own rows and
\* reminders: one entry per medicine with rows, with the counts of those rows,
\* by falling rate and, at equal rates, by the first row of the medicine.
ReportFromOwnRows(uid) ==
    LET report == get_medicine_adherence(uid, 0, MaxDay)
        E      == EventsOf(uid)
        med(i) == RemindersOf(uid)[E[i].reminder_id].medicine_id
        rows(m, statuses) == { i \in OwnRows(uid, Days, statuses) : med(i) = m }
        first(m) == CHOOSE i \in rows(m, AnyStatus) : \A j \in rows(m, AnyStatus) : i <= j
        M      == report.medicines
        all    == Cardinality(OwnRows(uid, Days, AnyStatus))
    IN  /\ { M[k].medicine_id : k \in DOMAIN M } = { med(i) : i \in OwnRows(uid, Days, AnyStatus) }
        /\ \A j, k \in DOMAIN M : M[j].medicine_id = M[k].medicine_id => j = k
        /\ \A k \in DOMAIN M :
              LET m     == M[k].medicine_id
                  total == Cardinality(rows(m, AnyStatus))
                  taken == Cardinality(rows(m, {TAKEN}))
              IN  M[k] = [ medicine_id     |-> m,
                           total_scheduled |-> total,
                           taken           |-> taken,
                           skipped         |-> Cardinality(rows(m, {SKIPPED})),
                           missed          |-> Cardinality(rows(m, {MISSED})),
                           adherence_rate  |-> RoundedRate(taken, total) ]
        /\ \A j, k \in DOMAIN M :
              j < k => \/ M[j].adherence_rate > M[k].adherence_rate
                       \/ /\ M[j].adherence_rate = M[k].adherence_rate
                          /\ first(M[j].medicine_id) < first(M[k].medicine_id)
        /\ report.overall_adherence =
              (IF all > 0
               THEN RoundedRate(Cardinality(OwnRows(uid, Days, {TAKEN})), all) ELSE 0)

WriteRequests == {"create", "update", "delete", "mark_taken", "mark_skipped", "sweep"}

\* C30: a create, update, delete, mark or sweep request of one user changes
\* neither the reminders nor the rows of another user nor what the other user
\* reads as today's reminders, stats, streak and history; the daily series and
\* the per-medicine report of a user are in every state those of the user's own
\* rows and reminders, which the request leaves as they are; an update or
\* delete of a reminder the caller does not own answers not-found and changes
\* nothing.
C30_UsersIsolated ==
    /\ [][ (last'.op \in WriteRequests) =>
              /\ \A A \in Users \ {last'.user} :
                    /\ RemindersOf(A)' = RemindersOf(A)
                    /\ EventsOf(A)' = EventsOf(A)
                    /\ Reads(A)' = Reads(A)
              /\ ( /\ last'.op \in {"update", "delete"}
                   /\ last'.rid \in DOMAIN reminders
                   /\ reminders[last'.rid].user_id # last'.user )
                 => /\ last'.res = "not_found"
                    /\ reminders' = reminders
                    /\ logs' = logs ]_vars
    /\ [](\A A \in Users : DailyFromOwnRows(A) /\ ReportFromOwnRows(A))

\* C30 witness: a user's sweep wrote a missed row while another user had an
\* overdue reminder without a row, which still has none.
C30_Witness ==
    /\ last.op = "sweep"
    /\ last.res = "ok"
    /\ last.count > 0
    /\ \E rid \in DOMAIN reminders :
          /\ reminders[rid].user_id # last.user
          /\ reminders[rid].is_active
          /\ clock > combine(today, reminders[rid].reminder_time)
          /\ EventsOn(rid, today) = {}

=============================================================================
